---- MODULE Spec2Model ----
(***************************************************************************)
(* Model of the quadcopter flight-control drivers:                         *)
(*   Core/Src/ESC.c     armESC, update_Motors (PID + mixer + safety clamp) *)
(*   Core/Src/BNO055.c  BNO_Init, BNO_Read (attitude sensor, blackbox)     *)
(*   Core/Src/HC05.c    processInput (command link)                        *)
(* Globals that main.c owns (setpoints, measured angles, PID state, gains) *)
(* are the extern variables the drivers declare; they start zeroed, and    *)
(* the gains, which no driver sets, are drawn from GainProfiles.           *)
(***************************************************************************)
EXTENDS Integers, Sequences, FiniteSets, TLC

(* ----------------------------- constants ------------------------------ *)
PID_SCALE == 100000
max_integral == 100000
motA_offset == 960
motB_offset == 960
motC_offset == 960
motD_offset == 960
MOTOR_FLOOR == 960
MOTOR_CEILING == 1500
ARM_FLOOR == 960
ARM_CEILING == 2000
ARM_READY == 10000
ARM_EFFORT == 1000
EFFORT_MAX == 1000
YAW_WRAP == 360000
effortRate == 10
blackboxFreq == 2
MAX_SAMPLES == 5000
true == 1
false == 0
BYTE_MAX == 255

(* ------------------------------- bounds ------------------------------- *)
MaxTicks == 2
MaxMsgs == 2
MaxReads == 1
MaxArms == 1
MaxPidTicks == 50
MaxPidReads == 1
MaxInits == 2
MaxLogReads == 7

(* ------------------------------ helpers ------------------------------- *)
\* C integer division: truncates toward zero (b > 0).
TruncDiv(a, b) == IF a >= 0 THEN a \div b ELSE -((-a) \div b)

\* (int16_t)((msb << 8) | lsb)
Int16LE(lsb, msb) ==
    LET u == msb * 256 + lsb
    IN  IF u >= 32768 THEN u - 65536 ELSE u

\* a conversion that rounds toward minus infinity
ToMilliDeg_Floor(raw) == (raw * 1000) \div 16

\* raw 1/16 degree -> millidegrees
ToMilliDeg(raw) == TruncDiv(raw * 1000, 16)

VARIABLES
    pc,              \* where the main thread is: "idle", "arm_test", "arm_body", "init_*"
    armed,           \* armESC has returned at least once
    pwm_on,          \* HAL_TIM_PWM_Start has been called on the four channels
    ccr,             \* TIM3 compare registers, channels 1..4
    armCompare,
    cfg,             \* the gains of main.c (Kp_*, Ki_*, Kd_*, K_effort)
    effort_set, stopFlag, dumpFlag, badBTcount,
    roll_set, pitch_set, yaw_set,
    rx,              \* the latest message handed to processInput: whether it starts with
                     \* '#', how many fields it carries, and the six locals after parsing
    roll_true, pitch_true, yaw_true,
    counter, sample_index, blackbox,
    eulerData,       \* BNO_Read's buffer as the latest call converted it
    readStatus,      \* what HAL_I2C_Mem_Read returned to the latest BNO_Read call
    roll_error, roll_integral, roll_derivative, last_roll_error, roll_effort,
    pitch_error, pitch_integral, pitch_derivative, last_pitch_error, pitch_effort,
    yaw_error, yaw_integral, yaw_derivative, last_yaw_error, yaw_effort,
    A, B, C, D,
    roll_integral_cl,   \* roll_integral right after its clamp (ESC.c line 189)
    pitch_integral_cl,  \* pitch_integral right after its clamp (ESC.c line 205)
    pre,                \* <<A, B, C, D>> before the safety limits (ESC.c line 254)
    lastCall,           \* the inputs the latest update_Motors call read
    armPulsed,          \* the current/latest armESC call has written an arm pulse
    sameAsPrev,         \* the latest update_Motors call read the inputs of the call before it
    calibData,          \* static calibration status byte of BNO055.c
    sampleData,         \* BNO_Init's chip-id buffer
    opr_mode,           \* the sensor's operation mode register
    initLog,            \* the current/latest BNO_Init call: chip id seen, mode writes issued,
                        \* calibrated status read, in the order they happened
    ticks, msgs, reads, arms, inits

armVars  == <<pc, armed, pwm_on, armCompare, armPulsed, arms>>
linkVars == <<effort_set, stopFlag, dumpFlag, badBTcount, roll_set, pitch_set, yaw_set, rx,
              msgs>>
imuVars  == <<roll_true, pitch_true, yaw_true, counter, sample_index, blackbox, eulerData,
              readStatus, reads>>
pidVars  == <<roll_error, roll_integral, roll_derivative, last_roll_error, roll_effort,
              pitch_error, pitch_integral, pitch_derivative, last_pitch_error, pitch_effort,
              yaw_error, yaw_integral, yaw_derivative, last_yaw_error, yaw_effort,
              roll_integral_cl, pitch_integral_cl>>
mixVars  == <<A, B, C, D, pre, lastCall, sameAsPrev, ticks>>
initVars == <<calibData, sampleData, opr_mode, initLog, inits>>
vars == <<armVars, linkVars, imuVars, pidVars, mixVars, initVars, ccr, cfg>>

(* ------------------------------- gains -------------------------------- *)
GainProfiles ==
    { [Kp_roll |-> 100, Ki_roll |-> 100, Kd_roll |-> 100,
       Kp_pitch |-> 100, Ki_pitch |-> 100, Kd_pitch |-> 100,
       Kp_yaw |-> 100, Ki_yaw |-> 100, Kd_yaw |-> 100, K_effort |-> 100000],
      [Kp_roll |-> 250, Ki_roll |-> 0, Kd_roll |-> 40,
       Kp_pitch |-> 250, Ki_pitch |-> 10, Kd_pitch |-> 40,
       Kp_yaw |-> 50, Ki_yaw |-> 0, Kd_yaw |-> 0, K_effort |-> 2000000] }

Kp_roll == cfg.Kp_roll
Ki_roll == cfg.Ki_roll
Kd_roll == cfg.Kd_roll
Kp_pitch == cfg.Kp_pitch
Ki_pitch == cfg.Ki_pitch
Kd_pitch == cfg.Kd_pitch
Kp_yaw == cfg.Kp_yaw
Ki_yaw == cfg.Ki_yaw
Kd_yaw == cfg.Kd_yaw
K_effort == cfg.K_effort

(* ------------------------- update_Motors: PID ------------------------- *)
\* error = -set + true
AxisError(set, meas) == -set + meas

\* a clamp that forgets the negative side
ClampIntegral_UpperOnly(i) == IF i > max_integral THEN max_integral ELSE i

\* the anti-windup clamp of ESC.c lines 185-189 / 201-205
ClampIntegral(i) ==
    IF i > max_integral THEN max_integral
    ELSE IF i < -max_integral THEN -max_integral
    ELSE i

\* a roll accumulator with both passes and no clamp
RollIntegralNext_Unclamped(old, e) == old + TruncDiv(e, 1000) + e

\* roll: scaled pass, clamp, then the raw pass of line 190
RollIntegralNext(old, e) == ClampIntegral(old + TruncDiv(e, 1000)) + e

\* a pitch axis that also has the raw pass
PitchIntegralNext_RawPass(old, e) == ClampIntegral(old + TruncDiv(e, 1000)) + e

\* pitch: scaled pass and clamp only
PitchIntegralNext(old, e) == ClampIntegral(old + TruncDiv(e, 1000))

\* yaw: raw pass, no clamp
YawIntegralNext(old, e) == old + e

\* -(Kp*error + Ki*integral + Kd*derivative) / PID_SCALE
PidEffort(Kp, Ki, Kd, e, i, d) == TruncDiv(-(Kp * e + Ki * i + Kd * d), PID_SCALE)

\* line 193 computes the roll effort, line 194 overwrites it with 0
RollEffort(e, i, d) ==
    LET computed == PidEffort(Kp_roll, Ki_roll, Kd_roll, e, i, d)
    IN  0

PitchEffort(e, i, d) == PidEffort(Kp_pitch, Ki_pitch, Kd_pitch, e, i, d)

YawEffort(e, i, d) == PidEffort(Kp_yaw, Ki_yaw, Kd_yaw, e, i, d)

(* ------------------------ update_Motors: mixer ------------------------ *)
\* effort_set * K_effort/PID_SCALE + offset   (left to right: product, then division)
\* a base that leaves the channel offset out
MotorBase_NoOffset(effort, offset) == TruncDiv(effort * K_effort, PID_SCALE)

\* lines 220-223
MotorBase(effort, offset) == TruncDiv(effort * K_effort, PID_SCALE) + offset

\* line 220 written as A += ... instead of A = ...
MixA_Accumulate(base, p, r, y) ==
    LET a1 == IF p > 0 THEN A + base + p ELSE A + base
        a2 == IF r > 0 THEN a1 ELSE IF r < 0 THEN a1 - r ELSE a1
        a3 == IF y > 0 THEN a2 ELSE IF y < 0 THEN a2 - y ELSE a2
    IN  a3

\* lines 227-254, one channel at a time, in the order pitch, roll, yaw
MixA(base, p, r, y) ==
    LET a1 == IF p > 0 THEN base + p ELSE base
        a2 == IF r > 0 THEN a1 ELSE IF r < 0 THEN a1 - r ELSE a1
        a3 == IF y > 0 THEN a2 ELSE IF y < 0 THEN a2 - y ELSE a2
    IN  a3

\* the other yaw pairing: positive yaw on A and C instead of B and D
MixB_YawSwapped(base, p, r, y) ==
    LET b1 == IF p > 0 THEN base ELSE IF p < 0 THEN base - p ELSE base
        b2 == IF r > 0 THEN b1 ELSE IF r < 0 THEN b1 - r ELSE b1
        b3 == IF y > 0 THEN b2 ELSE IF y < 0 THEN b2 - y ELSE b2
    IN  b3

MixB(base, p, r, y) ==
    LET b1 == IF p > 0 THEN base ELSE IF p < 0 THEN base - p ELSE base
        b2 == IF r > 0 THEN b1 ELSE IF r < 0 THEN b1 - r ELSE b1
        b3 == IF y > 0 THEN b2 + y ELSE b2
    IN  b3

\* a signed mix: C takes the pitch and yaw efforts off and the roll effort on
MixC_Signed(base, p, r, y) == base - p + r - y

MixC(base, p, r, y) ==
    LET c1 == IF p > 0 THEN base ELSE IF p < 0 THEN base - p ELSE base
        c2 == IF r > 0 THEN c1 + r ELSE c1
        c3 == IF y > 0 THEN c2 ELSE IF y < 0 THEN c2 - y ELSE c2
    IN  c3

MixD(base, p, r, y) ==
    LET d1 == IF p > 0 THEN base + p ELSE base
        d2 == IF r > 0 THEN d1 + r ELSE d1
        d3 == IF y > 0 THEN d2 + y ELSE d2
    IN  d3

\* SafetyLimit without the stop override
SafetyLimit_NoStop(x, stop) ==
    LET x1 == IF x < MOTOR_FLOOR THEN MOTOR_FLOOR ELSE x
    IN  IF x1 > MOTOR_CEILING THEN MOTOR_CEILING ELSE x1

\* if (X < 960 | (stopFlag == true)) X = 960;  if (X > 1500) X = 1500;
SafetyLimit(x, stop) ==
    LET x1 == IF x < MOTOR_FLOOR \/ stop = true THEN MOTOR_FLOOR ELSE x
    IN  IF x1 > MOTOR_CEILING THEN MOTOR_CEILING ELSE x1

\* what a call of update_Motors reads from its caller and the other drivers
CallInputs ==
    [stop |-> stopFlag, effort |-> effort_set,
     set |-> <<roll_set, pitch_set, yaw_set>>,
     meas |-> <<roll_true, pitch_true, yaw_true>>]

update_Motors ==
    /\ pc = "idle"
    /\ LET re  == AxisError(roll_set, roll_true)
           ri  == RollIntegralNext(roll_integral, re)
           rd  == re - last_roll_error
           pe  == AxisError(pitch_set, pitch_true)
           pi  == PitchIntegralNext(pitch_integral, pe)
           pd  == pe - last_pitch_error
           ye  == AxisError(yaw_set, yaw_true)
           yi  == YawIntegralNext(yaw_integral, ye)
           yd  == ye - last_yaw_error
           rf  == RollEffort(re, ri, rd)
           pf  == PitchEffort(pe, pi, pd)
           yf  == YawEffort(ye, yi, yd)
           a   == MixA(MotorBase(effort_set, motA_offset), pf, rf, yf)
           b   == MixB(MotorBase(effort_set, motB_offset), pf, rf, yf)
           c   == MixC(MotorBase(effort_set, motC_offset), pf, rf, yf)
           d   == MixD(MotorBase(effort_set, motD_offset), pf, rf, yf)
       IN  /\ roll_error' = re
           /\ roll_integral_cl' = ClampIntegral(roll_integral + TruncDiv(re, 1000))
           /\ roll_integral' = ri
           /\ roll_derivative' = rd
           /\ roll_effort' = rf
           /\ last_roll_error' = re
           /\ pitch_error' = pe
           /\ pitch_integral_cl' = ClampIntegral(pitch_integral + TruncDiv(pe, 1000))
           /\ pitch_integral' = pi
           /\ pitch_derivative' = pd
           /\ pitch_effort' = pf
           /\ last_pitch_error' = pe
           /\ yaw_error' = ye
           /\ yaw_integral' = yi
           /\ yaw_derivative' = yd
           /\ yaw_effort' = yf
           /\ last_yaw_error' = ye
           /\ pre' = <<a, b, c, d>>
           /\ A' = SafetyLimit(a, stopFlag)
           /\ B' = SafetyLimit(b, stopFlag)
           /\ C' = SafetyLimit(c, stopFlag)
           /\ D' = SafetyLimit(d, stopFlag)
    /\ ccr' = <<A', B', C', D'>>
    /\ lastCall' = CallInputs
    /\ sameAsPrev' = (ticks >= 1 /\ lastCall = CallInputs)
    /\ ticks' = ticks + 1
    /\ UNCHANGED <<armVars, linkVars, imuVars, initVars, cfg>>

(* ------------------------------- armESC ------------------------------- *)
\* a loop that a stop also ends
ArmLoopCond_StopEnds == roll_set < ARM_READY /\ stopFlag = false

\* the loop condition of line 124
ArmLoopCond == roll_set < ARM_READY

\* lines 132-136
ArmPulse(effort) ==
    LET c0 == effort * 4 - 2000
        c1 == IF c0 < ARM_FLOOR THEN ARM_FLOOR ELSE c0
    IN  IF c1 > ARM_CEILING THEN ARM_CEILING ELSE c1

\* the call and line 122
armESC_Enter ==
    /\ pc = "idle"
    /\ arms < MaxArms
    /\ arms' = arms + 1
    /\ effort_set' = ARM_EFFORT
    /\ armPulsed' = FALSE
    /\ pc' = "arm_test"
    /\ UNCHANGED <<armed, pwm_on, armCompare, ccr, cfg, imuVars, pidVars, mixVars, initVars,
                   stopFlag, dumpFlag, badBTcount, roll_set, pitch_set, yaw_set, rx, msgs>>

\* the loop test of line 124 and, when it fails, lines 150-151 and the return
armESC_Test ==
    /\ pc = "arm_test"
    /\ IF ArmLoopCond
       THEN /\ pc' = "arm_body"
            /\ UNCHANGED <<effort_set, armCompare, armed>>
       ELSE /\ pc' = "idle"
            /\ effort_set' = 0
            /\ armCompare' = 0
            /\ armed' = TRUE
    /\ UNCHANGED <<pwm_on, armPulsed, arms, ccr, cfg, imuVars, pidVars, mixVars, initVars,
                   stopFlag, dumpFlag, badBTcount, roll_set, pitch_set, yaw_set, rx, msgs>>

\* one loop body, lines 126-146
armESC_Body ==
    /\ pc = "arm_body"
    /\ pwm_on' = TRUE
    /\ armCompare' = ArmPulse(effort_set)
    /\ ccr' = <<armCompare', armCompare', armCompare', armCompare'>>
    /\ armPulsed' = TRUE
    /\ pc' = "arm_test"
    /\ UNCHANGED <<armed, arms, cfg, linkVars, imuVars, pidVars, mixVars, initVars>>

(* ------------------------------ BNO_Read ------------------------------ *)
\* 6-byte register images the read may leave in eulerData
EulerImages ==
    { <<0, 0, 0, 0, 0, 0>>,
      <<64, 6, 96, 255, 0, 0>>,        \* yaw 1600, roll -160, pitch 0
      <<0, 0, 255, 127, 0, 128>> }     \* yaw 0, roll 32767, pitch -32768

\* what the uninitialised buffer may hold when the transfer did not fill it
StackImages ==
    { <<0, 0, 0, 0, 0, 0>>,
      <<0, 0, 255, 127, 0, 128>> }

\* a room test that lets index MAX_SAMPLES through
BufferHasRoom_Inclusive == sample_index <= MAX_SAMPLES

\* line 174
BufferHasRoom == sample_index < MAX_SAMPLES

\* lines 160-182: conversion and blackbox logging
BNO_ReadImage(img) ==
    LET rawYaw16   == Int16LE(img[1], img[2])
        rawRoll16  == Int16LE(img[3], img[4])
        rawPitch16 == Int16LE(img[5], img[6])
        log        == (counter = blackboxFreq)
    IN  /\ yaw_true'   = ToMilliDeg(rawYaw16)
        /\ roll_true'  = ToMilliDeg(rawRoll16)
        /\ pitch_true' = ToMilliDeg(rawPitch16)
        /\ counter' = IF log THEN 0 ELSE counter + 1
        /\ IF log /\ BufferHasRoom
           THEN /\ blackbox' = Append(blackbox,
                                  [pitch |-> pitch_true', roll |-> roll_true',
                                   pitchSet |-> pitch_set, rollSet |-> roll_set])
                /\ sample_index' = sample_index + 1
           ELSE UNCHANGED <<blackbox, sample_index>>

\* lines 150-158: the transfer fills the buffer or fails; its status is not looked
\* at, and after a failure the conversion reads the buffer as the stack left it
BNO_ReadFrom(images) ==
    /\ pc = "idle"
    /\ reads' = reads + 1
    /\ \E ok \in BOOLEAN :
          \E img \in (IF ok THEN images ELSE StackImages) :
             /\ readStatus' = (IF ok THEN "HAL_OK" ELSE "HAL_ERROR")
             /\ eulerData' = img
             /\ BNO_ReadImage(img)
    /\ UNCHANGED <<armVars, linkVars, pidVars, mixVars, initVars, ccr, cfg>>

BNO_Read == BNO_ReadFrom(EulerImages)

(* ---------------------------- processInput ---------------------------- *)
\* What an uninitialised local may hold when its field is missing.
Garbage == {1, -700}

\* A message: whether it starts with '#', and the integers strtol reads from its
\* comma-separated tokens.
Messages ==
    { [hash |-> FALSE, f |-> <<500, 0, 0, 0, 1000, 1>>],
      [hash |-> TRUE,  f |-> <<500, 0, 0, 0, 0, 0>>],
      [hash |-> TRUE,  f |-> <<0, 250, 1000, 0, 1000, 1>>],
      [hash |-> TRUE,  f |-> <<0, -1000, -1000, 1000, 0, 0>>],
      [hash |-> TRUE,  f |-> <<-100, 0, 0, 0>>] }

\* lines 138-139
StickToAngle(joy) == TruncDiv(joy * 180, 9)

\* lines 142-149
YawSetpoint(heading, RjoyX) ==
    LET y == heading + TruncDiv(RjoyX, 10)
    IN  IF y < 0 THEN y + YAW_WRAP
        ELSE IF y > YAW_WRAP THEN y - YAW_WRAP
        ELSE y

\* line 152
EffortRaw(effort, LT, RT) == effort + TruncDiv((RT - LT) * effortRate, 1000)

\* a check that takes every message as well-formed
HasPrefix_Always(m) == TRUE

\* line 106: input[0] == '#'
HasPrefix(m) == m.hash

\* a limit that forgets the upper side
ClampEffort_LowerOnly(e) == IF e < 0 THEN 0 ELSE e

\* lines 155-160, the value written to *effort
ClampEffort(e) == IF e < 0 THEN 0 ELSE IF e > EFFORT_MAX THEN EFFORT_MAX ELSE e

\* a stop flag that follows the sign of the latest computed throttle
StopAfter_Follows(e, stop) == IF e < 0 THEN true ELSE false

\* lines 155-157, the value of stopFlag after them: set on a negative throttle,
\* otherwise left as it was
StopAfter(e, stop) == IF e < 0 THEN true ELSE stop

processMessage(m, g) ==
    IF ~HasPrefix(m)
    THEN /\ badBTcount' = badBTcount + 1
         /\ rx' = [hash |-> m.hash, n |-> Len(m.f), f |-> m.f]
         /\ UNCHANGED <<effort_set, stopFlag, dumpFlag, roll_set, pitch_set, yaw_set>>
    ELSE LET field(k) == IF k <= Len(m.f) THEN m.f[k] ELSE g[k]
             LjoyX == field(1)
             LjoyY == field(2)
             RjoyX == field(3)
             LT    == field(4)
             RT    == field(5)
             ENTER == field(6)
             e     == EffortRaw(effort_set, LT, RT)
         IN  /\ roll_set' = StickToAngle(LjoyX)
             /\ pitch_set' = StickToAngle(LjoyY)
             /\ yaw_set' = YawSetpoint(yaw_true, RjoyX)
             /\ effort_set' = ClampEffort(e)
             /\ stopFlag' = StopAfter(e, stopFlag)
             /\ dumpFlag' = IF ENTER = 1 THEN 1 ELSE dumpFlag
             /\ rx' = [hash |-> m.hash, n |-> Len(m.f), f |-> [k \in 1..6 |-> field(k)]]
             /\ UNCHANGED badBTcount

\* runs from the UART receive path, whatever the main thread is doing
processInputFrom(messages) ==
    /\ msgs < MaxMsgs
    /\ msgs' = msgs + 1
    /\ \E m \in messages :
          \E g \in [(Len(m.f) + 1)..6 -> Garbage] : processMessage(m, g)
    /\ UNCHANGED <<armVars, imuVars, pidVars, mixVars, initVars, ccr, cfg>>

processInput == processInputFrom(Messages)

(* ------------------------------ BNO_Init ------------------------------ *)
CHIP_ID == 160
CONFIG_MODE == 0
NDOF_MODE == 12

\* bytes the chip-id register read may deliver
ChipIdBytes == {0, 160}

\* bytes the calibration status register read may deliver
CalibBytes == {0, 63, 192, 255}

\* ((calibData >> 6) & 0x03) == 0x03
SysCalibrated(byte) == ((byte \div 64) % 4) = 3

\* the call and the locals of lines 71-75
BNO_Init_Enter ==
    /\ pc = "idle"
    /\ inits < MaxInits
    /\ inits' = inits + 1
    /\ sampleData' = 0
    /\ initLog' = <<>>
    /\ pc' = "init_probe"
    /\ UNCHANGED <<calibData, opr_mode, armed, pwm_on, armCompare, armPulsed, arms,
                   linkVars, imuVars, pidVars, mixVars, ccr, cfg>>

\* one pass of the communication loop, lines 78-94: the sensor is reset, the bus
\* may or may not come up ready, the read may or may not succeed (a failed read
\* leaves the buffer as it was)
BNO_Init_Probe ==
    /\ pc = "init_probe"
    /\ \E ready \in BOOLEAN, ok \in BOOLEAN, id \in ChipIdBytes :
          /\ sampleData' = IF ready /\ ok THEN id ELSE sampleData
          /\ IF sampleData' = CHIP_ID
             THEN pc' = "init_config" /\ initLog' = Append(initLog, "id")
             ELSE UNCHANGED <<pc, initLog>>
    /\ opr_mode' = CONFIG_MODE
    /\ UNCHANGED <<calibData, inits, armed, pwm_on, armCompare, armPulsed, arms,
                   linkVars, imuVars, pidVars, mixVars, ccr, cfg>>

\* lines 98-100: the write is issued and its status is not looked at
BNO_Init_Config ==
    /\ pc = "init_config"
    /\ \E ok \in BOOLEAN :
          /\ opr_mode' = IF ok THEN CONFIG_MODE ELSE opr_mode
          /\ initLog' = Append(initLog, "config")
    /\ pc' = "init_ndof"
    /\ UNCHANGED <<calibData, sampleData, inits, armed, pwm_on, armCompare, armPulsed, arms,
                   linkVars, imuVars, pidVars, mixVars, ccr, cfg>>

\* lines 103-105
BNO_Init_Ndof ==
    /\ pc = "init_ndof"
    /\ \E ok \in BOOLEAN :
          /\ opr_mode' = IF ok THEN NDOF_MODE ELSE opr_mode
          /\ initLog' = Append(initLog, "ndof")
    /\ pc' = "init_calib"
    /\ UNCHANGED <<calibData, sampleData, inits, armed, pwm_on, armCompare, armPulsed, arms,
                   linkVars, imuVars, pidVars, mixVars, ccr, cfg>>

\* one pass of the calibration loop, lines 108-121: a failed read leaves the
\* static calibData as it was
BNO_Init_Calib ==
    /\ pc = "init_calib"
    /\ \E ok \in BOOLEAN, byte \in CalibBytes :
          /\ calibData' = IF ok THEN byte ELSE calibData
          /\ initLog' = IF ok /\ SysCalibrated(byte) THEN Append(initLog, "calib") ELSE initLog
    /\ pc' = IF SysCalibrated(calibData') THEN "idle" ELSE "init_calib"
    /\ UNCHANGED <<sampleData, opr_mode, inits, armed, pwm_on, armCompare, armPulsed, arms,
                   linkVars, imuVars, pidVars, mixVars, ccr, cfg>>

(* ---------------------------- specification --------------------------- *)
Init ==
    /\ pc = "idle"
    /\ armed = FALSE
    /\ pwm_on = FALSE
    /\ ccr = <<0, 0, 0, 0>>
    /\ armCompare = 0
    /\ cfg \in GainProfiles
    /\ effort_set = 0 /\ stopFlag = false /\ dumpFlag = 0 /\ badBTcount = 0
    /\ roll_set = 0 /\ pitch_set = 0 /\ yaw_set = 0
    /\ roll_true = 0 /\ pitch_true = 0 /\ yaw_true = 0
    /\ rx = [hash |-> TRUE, n |-> 6, f |-> <<0, 0, 0, 0, 0, 0>>]
    /\ counter = 0 /\ sample_index = 0 /\ blackbox = <<>>
    /\ eulerData = <<0, 0, 0, 0, 0, 0>> /\ readStatus = "HAL_OK"
    /\ roll_error = 0 /\ roll_integral = 0 /\ roll_derivative = 0
    /\ last_roll_error = 0 /\ roll_effort = 0
    /\ pitch_error = 0 /\ pitch_integral = 0 /\ pitch_derivative = 0
    /\ last_pitch_error = 0 /\ pitch_effort = 0
    /\ yaw_error = 0 /\ yaw_integral = 0 /\ yaw_derivative = 0
    /\ last_yaw_error = 0 /\ yaw_effort = 0
    /\ A = 0 /\ B = 0 /\ C = 0 /\ D = 0
    /\ roll_integral_cl = 0 /\ pitch_integral_cl = 0
    /\ pre = <<0, 0, 0, 0>>
    /\ lastCall = [stop |-> false, effort |-> 0, set |-> <<0, 0, 0>>, meas |-> <<0, 0, 0>>]
    /\ armPulsed = FALSE
    /\ sameAsPrev = FALSE
    /\ calibData = 0 /\ sampleData = 0 /\ opr_mode = CONFIG_MODE /\ initLog = <<>>
    /\ ticks = 0 /\ msgs = 0 /\ reads = 0 /\ arms = 0 /\ inits = 0

Tick == ticks < MaxTicks /\ update_Motors

Read == reads < MaxReads /\ BNO_Read

\* the control system: arming, the command link, the sensor read and the tick
Next ==
    \/ armESC_Enter
    \/ armESC_Test
    \/ armESC_Body
    \/ processInput
    \/ Read
    \/ Tick

Spec == Init /\ [][Next]_vars

\* the PID loop over many ticks
PidTick == ticks < MaxPidTicks /\ update_Motors

PidRead == reads < MaxPidReads /\ BNO_Read

NextPID == PidRead \/ PidTick

SpecPID == Init /\ [][NextPID]_vars

\* the sensor driver: bring-up, calibration wait and reads
NextIMU ==
    \/ BNO_Init_Enter
    \/ BNO_Init_Probe
    \/ BNO_Init_Config
    \/ BNO_Init_Ndof
    \/ BNO_Init_Calib
    \/ Read

SpecIMU == Init /\ [][NextIMU]_vars

\* the conversion of BNO_Read over every 16-bit raw value: yaw takes the byte pair
\* (l, m), roll the pair (m, l) and pitch the complemented pair
ConvImages ==
    { <<l, m, m, l, BYTE_MAX - l, BYTE_MAX - m>> : l \in 0..BYTE_MAX, m \in 0..BYTE_MAX }

ConvRead == reads = 0 /\ BNO_ReadFrom(ConvImages)

SpecConv == Init /\ [][ConvRead]_vars

\* the command link alone: one processInput call on drawn prior throttle, flags,
\* setpoints and heading
EffortPriors == {0, 5, 995, 1000}

SetpointPriors == {<<0, 0, 0>>, <<4000, -2000, 90000>>}

HeadingSamples == {0, 359937}

InitLink ==
    /\ pc = "idle"
    /\ armed = FALSE
    /\ pwm_on = FALSE
    /\ ccr = <<0, 0, 0, 0>>
    /\ armCompare = 0
    /\ cfg \in GainProfiles
    /\ effort_set \in EffortPriors /\ stopFlag \in {false, true}
    /\ dumpFlag \in {0, 1} /\ badBTcount \in {0, 3}
    /\ \E sp \in SetpointPriors : roll_set = sp[1] /\ pitch_set = sp[2] /\ yaw_set = sp[3]
    /\ roll_true = 0 /\ pitch_true = 0 /\ yaw_true \in HeadingSamples
    /\ rx = [hash |-> TRUE, n |-> 6, f |-> <<0, 0, 0, 0, 0, 0>>]
    /\ counter = 0 /\ sample_index = 0 /\ blackbox = <<>>
    /\ eulerData = <<0, 0, 0, 0, 0, 0>> /\ readStatus = "HAL_OK"
    /\ roll_error = 0 /\ roll_integral = 0 /\ roll_derivative = 0
    /\ last_roll_error = 0 /\ roll_effort = 0
    /\ pitch_error = 0 /\ pitch_integral = 0 /\ pitch_derivative = 0
    /\ last_pitch_error = 0 /\ pitch_effort = 0
    /\ yaw_error = 0 /\ yaw_integral = 0 /\ yaw_derivative = 0
    /\ last_yaw_error = 0 /\ yaw_effort = 0
    /\ A = 0 /\ B = 0 /\ C = 0 /\ D = 0
    /\ roll_integral_cl = 0 /\ pitch_integral_cl = 0
    /\ pre = <<0, 0, 0, 0>>
    /\ lastCall = [stop |-> false, effort |-> 0, set |-> <<0, 0, 0>>, meas |-> <<0, 0, 0>>]
    /\ armPulsed = FALSE
    /\ sameAsPrev = FALSE
    /\ calibData = 0 /\ sampleData = 0 /\ opr_mode = CONFIG_MODE /\ initLog = <<>>
    /\ ticks = 0 /\ msgs = 0 /\ reads = 0 /\ arms = 0 /\ inits = 0

\* trigger values (LT, RT) carried by command-link messages
TriggerSamples == {0, 50, 99, 100, 1000, 100000000}

\* right-stick values (RjoyX) carried by command-link messages
StickSamples == {-1000, -1, 630, 1000}

LinkMessages ==
    Messages \cup
    { [hash |-> TRUE, f |-> <<0, 0, 0, lt, rt, 0>>] : lt \in TriggerSamples, rt \in TriggerSamples }
    \cup
    { [hash |-> TRUE, f |-> <<0, 0, rj, 0, 0, 0>>] : rj \in StickSamples }

LinkStep == msgs = 0 /\ processInputFrom(LinkMessages)

SpecLink == InitLink /\ [][LinkStep]_vars

\* the blackbox sub-rate: reads from power-up
LogRead == reads < MaxLogReads /\ BNO_Read

SpecRate == Init /\ [][LogRead]_vars

\* the blackbox at its capacity: reads on a buffer that a level flight with zero
\* setpoints has filled, or filled but for one slot
ZeroSample == [pitch |-> 0, roll |-> 0, pitchSet |-> 0, rollSet |-> 0]

BlackboxFills == {MAX_SAMPLES - 1, MAX_SAMPLES}

InitLog ==
    /\ pc = "idle"
    /\ armed = FALSE
    /\ pwm_on = FALSE
    /\ ccr = <<0, 0, 0, 0>>
    /\ armCompare = 0
    /\ cfg \in GainProfiles
    /\ effort_set = 0 /\ stopFlag = false /\ dumpFlag = 0 /\ badBTcount = 0
    /\ roll_set = 0 /\ pitch_set = 0 /\ yaw_set = 0
    /\ roll_true = 0 /\ pitch_true = 0 /\ yaw_true = 0
    /\ rx = [hash |-> TRUE, n |-> 6, f |-> <<0, 0, 0, 0, 0, 0>>]
    /\ counter = 0 /\ sample_index \in BlackboxFills
    /\ blackbox = [k \in 1..sample_index |-> ZeroSample]
    /\ eulerData = <<0, 0, 0, 0, 0, 0>> /\ readStatus = "HAL_OK"
    /\ roll_error = 0 /\ roll_integral = 0 /\ roll_derivative = 0
    /\ last_roll_error = 0 /\ roll_effort = 0
    /\ pitch_error = 0 /\ pitch_integral = 0 /\ pitch_derivative = 0
    /\ last_pitch_error = 0 /\ pitch_effort = 0
    /\ yaw_error = 0 /\ yaw_integral = 0 /\ yaw_derivative = 0
    /\ last_yaw_error = 0 /\ yaw_effort = 0
    /\ A = 0 /\ B = 0 /\ C = 0 /\ D = 0
    /\ roll_integral_cl = 0 /\ pitch_integral_cl = 0
    /\ pre = <<0, 0, 0, 0>>
    /\ lastCall = [stop |-> false, effort |-> 0, set |-> <<0, 0, 0>>, meas |-> <<0, 0, 0>>]
    /\ armPulsed = FALSE
    /\ sameAsPrev = FALSE
    /\ calibData = 0 /\ sampleData = 0 /\ opr_mode = CONFIG_MODE /\ initLog = <<>>
    /\ ticks = 0 /\ msgs = 0 /\ reads = 0 /\ arms = 0 /\ inits = 0

SpecLog == InitLog /\ [][LogRead]_vars

\* the mixer and safety stage alone (lines 218-278) on drawn efforts
EffortSamples == {-700, -50, 0, 50}

ThrottleSamples == {0, 10, 500, 1000}

InitMixer ==
    /\ pc = "idle"
    /\ armed = FALSE
    /\ pwm_on = FALSE
    /\ ccr = <<0, 0, 0, 0>>
    /\ armCompare = 0
    /\ cfg \in GainProfiles
    /\ effort_set \in ThrottleSamples
    /\ stopFlag \in {false, true}
    /\ dumpFlag = 0 /\ badBTcount = 0
    /\ roll_set = 0 /\ pitch_set = 0 /\ yaw_set = 0
    /\ roll_true = 0 /\ pitch_true = 0 /\ yaw_true = 0
    /\ rx = [hash |-> TRUE, n |-> 6, f |-> <<0, 0, 0, 0, 0, 0>>]
    /\ counter = 0 /\ sample_index = 0 /\ blackbox = <<>>
    /\ eulerData = <<0, 0, 0, 0, 0, 0>> /\ readStatus = "HAL_OK"
    /\ roll_error = 0 /\ roll_integral = 0 /\ roll_derivative = 0
    /\ last_roll_error = 0 /\ roll_effort \in EffortSamples
    /\ pitch_error = 0 /\ pitch_integral = 0 /\ pitch_derivative = 0
    /\ last_pitch_error = 0 /\ pitch_effort \in EffortSamples
    /\ yaw_error = 0 /\ yaw_integral = 0 /\ yaw_derivative = 0
    /\ last_yaw_error = 0 /\ yaw_effort \in EffortSamples
    /\ A = 0 /\ B = 0 /\ C = 0 /\ D = 0
    /\ roll_integral_cl = 0 /\ pitch_integral_cl = 0
    /\ pre = <<0, 0, 0, 0>>
    /\ lastCall = [stop |-> false, effort |-> 0, set |-> <<0, 0, 0>>, meas |-> <<0, 0, 0>>]
    /\ armPulsed = FALSE
    /\ sameAsPrev = FALSE
    /\ calibData = 0 /\ sampleData = 0 /\ opr_mode = CONFIG_MODE /\ initLog = <<>>
    /\ ticks = 0 /\ msgs = 0 /\ reads = 0 /\ arms = 0 /\ inits = 0

MixStage ==
    /\ ticks = 0
    /\ LET a == MixA(MotorBase(effort_set, motA_offset), pitch_effort, roll_effort, yaw_effort)
           b == MixB(MotorBase(effort_set, motB_offset), pitch_effort, roll_effort, yaw_effort)
           c == MixC(MotorBase(effort_set, motC_offset), pitch_effort, roll_effort, yaw_effort)
           d == MixD(MotorBase(effort_set, motD_offset), pitch_effort, roll_effort, yaw_effort)
       IN  /\ pre' = <<a, b, c, d>>
           /\ A' = SafetyLimit(a, stopFlag)
           /\ B' = SafetyLimit(b, stopFlag)
           /\ C' = SafetyLimit(c, stopFlag)
           /\ D' = SafetyLimit(d, stopFlag)
    /\ ccr' = <<A', B', C', D'>>
    /\ ticks' = ticks + 1
    /\ UNCHANGED <<armVars, linkVars, imuVars, pidVars, initVars, lastCall, sameAsPrev, cfg>>

SpecMixer == InitMixer /\ [][MixStage]_vars

\* no product of the model leaves the 32-bit range, so the unbounded integers
\* of the model compute what the int32_t arithmetic computes
Int32Safe(x) == x >= -2147483647 /\ x <= 2147483647

NoOverflow ==
    /\ Int32Safe(Kp_roll * roll_error + Ki_roll * roll_integral + Kd_roll * roll_derivative)
    /\ Int32Safe(Kp_pitch * pitch_error + Ki_pitch * pitch_integral + Kd_pitch * pitch_derivative)
    /\ Int32Safe(Kp_yaw * yaw_error + Ki_yaw * yaw_integral + Kd_yaw * yaw_derivative)
    /\ Int32Safe(effort_set * K_effort)

(* ------------------------------- claims ------------------------------- *)
Floor4 == <<960, 960, 960, 960>>

IsTick == ticks' = ticks + 1

\* The arming state of the design: Arming while armESC runs, Armed once it has
\* returned and no stop is latched, Disarmed otherwise.
ArmState ==
    IF pc \in {"arm_test", "arm_body"} THEN "Arming"
    ELSE IF armed /\ stopFlag = false THEN "Armed"
    ELSE "Disarmed"

\* C1: every update_Motors call writes four compare values within [960, 1500],
\* and writes 960 to all four when stopFlag is true at the call.
C1_OutputEnvelope ==
    [][IsTick =>
         /\ ccr' = <<A', B', C', D'>>
         /\ \A k \in 1..4 : ccr'[k] >= 960 /\ ccr'[k] <= 1500
         /\ (stopFlag = true => ccr' = Floor4)]_vars

\* C1 witness: a call made under stop whose mixed values were above the ceiling
C1_Witness ==
    /\ ticks > 0
    /\ lastCall.stop = true
    /\ ccr = Floor4
    /\ \E k \in 1..4 : pre[k] > 1500

\* C2: whenever the system is not Armed, update_Motors writes 960 to every channel.
C2_FloorUnlessArmed ==
    [][IsTick /\ ArmState # "Armed" => ccr' = Floor4]_vars

\* C3: every iteration of the armESC loop writes the same value to all four
\* channels, and that value is the low arm pulse 960.
C3_ArmPulseIsFloor ==
    [][pc = "arm_body" /\ pc' = "arm_test" => ccr' = Floor4]_vars

\* C4: armESC leaves its loop only at a loop test that observes roll_set >= 10000,
\* it leaves at the first such test, and nothing else (throttle, pitch, yaw, stop)
\* ends arming.
C4_ArmingEndsOnlyOnReadiness ==
    [][/\ (pc = "arm_test" /\ pc' # pc =>
              IF roll_set >= 10000 THEN pc' = "idle" /\ armed' ELSE pc' = "arm_body")
       /\ (pc = "arm_body" => pc' \in {"arm_body", "arm_test"})
       /\ (pc \in {"arm_test", "arm_body"} /\ pc' \notin {"arm_test", "arm_body"} =>
              pc = "arm_test" /\ roll_set >= 10000)]_vars

\* C4 witness: arming looped, a stop was latched meanwhile or before, and the call
\* returned on readiness
C4_Witness ==
    /\ pc = "idle" /\ armed /\ armPulsed
    /\ stopFlag = true
    /\ roll_set >= 10000

\* C5: BNO_Init returns only after, in this order, the identity register was read
\* as 0xA0, configuration mode and then NDOF mode were written, and a calibration
\* status read of this same call reported system-calibration bits 0b11.
C5_InitReturnsCalibrated ==
    [][pc = "init_calib" /\ pc' = "idle" =>
         initLog' = <<"id", "config", "ndof", "calib">>]_vars

\* truncating division of the claims, by a positive divisor
Quot(x, n) == IF x < 0 THEN -((-x) \div n) ELSE x \div n

\* saturation of the claims at +-100000
Sat(x) == IF x > 100000 THEN 100000 ELSE IF x < -100000 THEN -100000 ELSE x

\* C6: in every tick the roll integral and the pitch integral lie within
\* [-100000, 100000] immediately after their clamping step.
C6_IntegralClamped ==
    /\ roll_integral_cl >= -100000 /\ roll_integral_cl <= 100000
    /\ pitch_integral_cl >= -100000 /\ pitch_integral_cl <= 100000

\* C6 witness: both clamps have cut, roll at the top and pitch at the bottom
C6_Witness ==
    /\ roll_integral_cl = 100000 /\ last_roll_error > 100000
    /\ pitch_integral_cl = -100000 /\ last_pitch_error < -100000
    /\ ticks * 2048 > 100000

\* C7: in every tick, for roll, pitch and yaw, the effort handed to the mixer is
\* -(Kp*error + Ki*integral + Kd*derivative) / PID_SCALE truncated toward zero,
\* with error = measured - setpoint, derivative = error - previous error and the
\* integral the axis accumulator after this tick.
C7_EffortFormula ==
    [][IsTick =>
         /\ roll_error' = roll_true - roll_set
         /\ roll_derivative' = roll_error' - last_roll_error
         /\ roll_effort' = Quot(-(Kp_roll * roll_error' + Ki_roll * roll_integral'
                                   + Kd_roll * roll_derivative'), 100000)
         /\ pitch_error' = pitch_true - pitch_set
         /\ pitch_derivative' = pitch_error' - last_pitch_error
         /\ pitch_effort' = Quot(-(Kp_pitch * pitch_error' + Ki_pitch * pitch_integral'
                                    + Kd_pitch * pitch_derivative'), 100000)
         /\ yaw_error' = yaw_true - yaw_set
         /\ yaw_derivative' = yaw_error' - last_yaw_error
         /\ yaw_effort' = Quot(-(Kp_yaw * yaw_error' + Ki_yaw * yaw_integral'
                                  + Kd_yaw * yaw_derivative'), 100000)]_vars

\* C8 as claimed: in every tick both the roll and the pitch integral become
\* clamp(old + error/1000) + error.
C8_TwoPassBothAxes ==
    [][IsTick =>
         /\ roll_integral' = Sat(roll_integral + Quot(roll_error', 1000)) + roll_error'
         /\ pitch_integral' = Sat(pitch_integral + Quot(pitch_error', 1000)) + pitch_error']_vars

\* C8 amended: in every tick the roll integral becomes clamp(old + error/1000) + error,
\* and the pitch integral becomes clamp(old + error/1000), with no raw pass.
C8_TwoPassRollOnly ==
    [][IsTick =>
         /\ roll_error' = roll_true - roll_set
         /\ pitch_error' = pitch_true - pitch_set
         /\ roll_integral' = Sat(roll_integral + Quot(roll_error', 1000)) + roll_error'
         /\ pitch_integral' = Sat(pitch_integral + Quot(pitch_error', 1000))]_vars

\* C8 witness: a tick whose pitch error is far from zero left the pitch integral
\* at the clamp, while the roll integral stands one raw error above its clamp
C8_Witness ==
    /\ ticks >= 2
    /\ pitch_error = -2048000 /\ pitch_integral = -100000
    /\ roll_error = 2047937 /\ roll_integral = 100000 + roll_error

Max0(x) == IF x > 0 THEN x ELSE 0

\* C9: the values before the safety limits are
\*   A = b + offA + max(p,0) + max(-r,0) + max(-y,0)
\*   B = b + offB + max(-p,0) + max(-r,0) + max(y,0)
\*   C = b + offC + max(-p,0) + max(r,0) + max(-y,0)
\*   D = b + offD + max(p,0) + max(r,0) + max(y,0)
\* with b = effort_set*K_effort/PID_SCALE and (p, r, y) the pitch, roll and yaw efforts.
C9_MixerSum ==
    ticks = 1 =>
        LET b == Quot(effort_set * K_effort, 100000)
            p == pitch_effort
            r == roll_effort
            y == yaw_effort
        IN  pre = << b + 960 + Max0(p) + Max0(-r) + Max0(-y),
                     b + 960 + Max0(-p) + Max0(-r) + Max0(y),
                     b + 960 + Max0(-p) + Max0(r) + Max0(-y),
                     b + 960 + Max0(p) + Max0(r) + Max0(y) >>

\* C9 witness: all three axes contribute to one mix, B taking pitch, roll and yaw
C9_Witness ==
    /\ ticks = 1
    /\ pitch_effort = -50 /\ roll_effort = -700 /\ yaw_effort = 50
    /\ effort_set = 10 /\ K_effort = 100000
    /\ pre = <<1670, 1770, 1020, 1020>>

\* C10 as claimed: two consecutive update_Motors calls that read identical
\* setpoints, measured angles, throttle and stop flag write the same channel tuple.
C10_Idempotent ==
    [][IsTick /\ ticks >= 1 /\ lastCall = CallInputs =>
         <<A', B', C', D'>> = <<A, B, C, D>>]_vars

\* C10 amended: two consecutive update_Motors calls that read identical inputs
\* write the same channel tuple whenever the second call computes the same three
\* efforts as the first; the PID state the first call leaves may change them.
C10_IdempotentGivenEfforts ==
    [][/\ IsTick /\ ticks >= 1 /\ lastCall = CallInputs
       /\ pitch_effort' = pitch_effort
       /\ roll_effort' = roll_effort
       /\ yaw_effort' = yaw_effort
       => <<A', B', C', D'>> = <<A, B, C, D>>]_vars

\* C10 witness: a repeated call with a yaw effort at work wrote the same
\* non-floor tuple again
C10_Witness ==
    /\ sameAsPrev
    /\ yaw_effort # 0
    /\ yaw_integral # yaw_error
    /\ \E k \in 1..4 : ccr[k] > 960 /\ ccr[k] < 1500

\* the case of C11: no axis effort, stop clear, a base contribution of 500
BaseOnly500 ==
    /\ ticks = 1
    /\ pitch_effort = 0 /\ roll_effort = 0 /\ yaw_effort = 0
    /\ stopFlag = false
    /\ Quot(effort_set * K_effort, 100000) = 500

\* C11 as claimed: with all three efforts 0, the stop flag clear, offsets of 960
\* and a base contribution of 500, update_Motors outputs 960 on all four channels.
C11_BaseOnlyIsFloor ==
    BaseOnly500 => ccr = Floor4

\* C11 amended: in that case update_Motors outputs 500 + 960 = 1460 on all four
\* channels, the base contribution added to the channel offset, inside the limits.
C11_BaseOnlyIs1460 ==
    BaseOnly500 => ccr = <<1460, 1460, 1460, 1460>> /\ pre = ccr

\* C11 witness: the mixer ran on throttle 500 at unit gain with no effort and no stop
C11_Witness ==
    /\ BaseOnly500
    /\ effort_set = 500 /\ K_effort = 100000
    /\ <<A, B, C, D>> = <<1460, 1460, 1460, 1460>>

\* the signed 16-bit value of an unsigned one
S16(u) == ((u + 32768) % 65536) - 32768

\* C12: BNO_Read takes yaw from bytes 0-1, roll from bytes 2-3 and pitch from
\* bytes 4-5 of the register image, each pair little-endian and signed, and
\* returns raw*1000/16 truncated toward zero for each.
C12_Conversion ==
    reads = 1 =>
        /\ yaw_true = Quot(S16(eulerData[1] + 256 * eulerData[2]) * 1000, 16)
        /\ roll_true = Quot(S16(eulerData[3] + 256 * eulerData[4]) * 1000, 16)
        /\ pitch_true = Quot(S16(eulerData[5] + 256 * eulerData[6]) * 1000, 16)

\* C12 witness: the image 01 80 80 01 FE 7F was converted: yaw -32767 and roll 384
\* and pitch 32766 sixteenths of a degree, the first and last not multiples of 16
C12_Witness ==
    /\ reads = 1
    /\ readStatus = "HAL_OK"
    /\ eulerData = <<1, 128, 128, 1, 254, 127>>
    /\ yaw_true = -2047937 /\ roll_true = 24000 /\ pitch_true = 2047875

IsRead == reads' = reads + 1

\* C13: a BNO_Read call whose register read fails leaves the attitude outputs and
\* the telemetry buffer as they were, the failure being the caller's to handle.
C13_FailedReadKeepsOutputs ==
    [][IsRead /\ readStatus' = "HAL_ERROR" =>
         UNCHANGED <<roll_true, pitch_true, yaw_true, blackbox, sample_index>>]_vars

IsMsg == msgs' = msgs + 1

\* C14: a message whose first character is not '#' makes processInput add exactly
\* 1 to badBTcount and leave the three setpoints, the throttle effort, the dump
\* flag and stopFlag unchanged, so a following update_Motors reads what it would
\* have read without the message.
C14_BadPrefixDropped ==
    [][IsMsg /\ ~rx'.hash =>
         /\ badBTcount' = badBTcount + 1
         /\ UNCHANGED <<roll_set, pitch_set, yaw_set, effort_set, dumpFlag, stopFlag>>
         /\ CallInputs' = CallInputs]_vars

\* C14 witness: a message without '#' whose fields would have moved the roll
\* setpoint, the throttle and the dump flag was counted and left them alone
C14_Witness ==
    /\ msgs = 1 /\ ~rx.hash
    /\ rx.f[1] = 500 /\ rx.f[5] = 1000 /\ rx.f[6] = 1
    /\ badBTcount = 4
    /\ roll_set = 4000 /\ effort_set = 5 /\ dumpFlag = 0

\* C15: a message that starts with '#' but carries fewer than six fields is
\* dropped: processInput adds 1 to badBTcount and leaves the setpoints, the
\* throttle effort, stopFlag and the dump flag unchanged.
C15_ShortMessageDropped ==
    [][IsMsg /\ rx'.hash /\ rx'.n < 6 =>
         /\ badBTcount' = badBTcount + 1
         /\ UNCHANGED <<roll_set, pitch_set, yaw_set, effort_set, stopFlag, dumpFlag>>]_vars

\* C16: with N = blackboxFreq = 2, while the buffer is not full, the number of
\* samples logged after k BNO_Read calls from counter = 0 is floor(k / N).
C16_EveryNthCall ==
    sample_index < MAX_SAMPLES => sample_index = reads \div 2

\* C17: after any number of BNO_Read calls 0 <= sample_index <= MAX_SAMPLES and
\* every sample written lies in blackbox[0..MAX_SAMPLES-1]; a call made with
\* sample_index = MAX_SAMPLES leaves sample_index and the stored samples as they
\* were and still produces the three attitude outputs.
C17_BufferBounded ==
    [][IsRead =>
         /\ sample_index' >= 0 /\ sample_index' <= 5000
         /\ Len(blackbox') = sample_index'
         /\ (sample_index = 5000 =>
                /\ UNCHANGED <<sample_index, blackbox>>
                /\ yaw_true' = Quot(S16(eulerData'[1] + 256 * eulerData'[2]) * 1000, 16)
                /\ roll_true' = Quot(S16(eulerData'[3] + 256 * eulerData'[4]) * 1000, 16)
                /\ pitch_true' = Quot(S16(eulerData'[5] + 256 * eulerData'[6]) * 1000, 16))]_vars

\* C17 witness: the last slot was written by the third call, and the sixth call,
\* a logging one with a different reading, found the buffer full and wrote nothing
C17_Witness ==
    /\ reads = 6 /\ counter = 0
    /\ sample_index = 5000 /\ Len(blackbox) = 5000
    /\ blackbox[5000].roll = -10000
    /\ roll_true = 2047937

\* C18: when armESC returns, PWM generation has been started on the four channels
\* and at least one arm pulse has been written to them, whatever roll_set was at
\* the call, and effort_set and armCompare are 0.
C18_ArmReturnsPulsed ==
    [][pc = "arm_test" /\ pc' = "idle" =>
         /\ pwm_on' /\ armPulsed'
         /\ effort_set' = 0 /\ armCompare' = 0]_vars

\* C19: once processInput has left the throttle effort at 0, every update_Motors
\* call made with effort_set = 0 writes 960 to all four channels, whatever the
\* attitude errors are.
C19_ZeroThrottleNoSpin ==
    [][IsTick /\ msgs >= 1 /\ rx.hash /\ rx.n = 6 /\ arms = 0 /\ effort_set = 0 =>
         ccr' = Floor4]_vars

\* C20: after a well-formed message, for any prior effort in [0, 1000] and any
\* trigger values, the throttle effort processInput writes lies in [0, 1000], and
\* the call sets stopFlag exactly when effort + (RT - LT)*effortRate/1000 is
\* strictly negative (otherwise it leaves the flag as it was).
C20_EffortRange ==
    [][IsMsg /\ rx'.hash /\ rx'.n = 6 /\ effort_set >= 0 /\ effort_set <= 1000 =>
         LET unclamped == effort_set + Quot((rx'.f[5] - rx'.f[4]) * 10, 1000)
         IN  /\ effort_set' >= 0 /\ effort_set' <= 1000
             /\ (unclamped < 0 => stopFlag' = 1)
             /\ (unclamped >= 0 => stopFlag' = stopFlag)]_vars

\* C20 witness: a left trigger 100 above the right one took a throttle of 0
\* below zero: the effort was written as 0 and the stop was set
C20_Witness ==
    /\ msgs = 1 /\ rx.hash /\ rx.n = 6
    /\ rx.f[4] = 100 /\ rx.f[5] = 0
    /\ effort_set = 0 /\ stopFlag = 1 /\ badBTcount = 0

\* C21: once stopFlag is true, no call of processInput, BNO_Read, update_Motors
\* or armESC clears it, and every update_Motors call made from then on writes
\* 960 to all four channels, also after the throttle has been raised again.
C21_StopLatched ==
    [][stopFlag = 1 =>
         /\ stopFlag' = 1
         /\ (IsTick => ccr' = Floor4 /\ <<A', B', C', D'>> = Floor4)]_vars

\* C21 witness: after the stop a later message raised the throttle again, and
\* the tick that followed mixed values above the floor and wrote 960 everywhere
C21_Witness ==
    /\ stopFlag = 1 /\ msgs = 2 /\ ticks >= 1
    /\ rx.hash /\ rx.n = 6 /\ rx.f[5] > rx.f[4]
    /\ effort_set > 0 /\ lastCall.effort = effort_set /\ lastCall.stop = 1
    /\ \A k \in 1..4 : pre[k] > 960
    /\ ccr = Floor4

\* C22: after a well-formed message, with the measured yaw in [0, 360000) and
\* the right-stick value in [-1000, 1000], the yaw setpoint processInput writes
\* lies in [0, 360000): never negative, never 360000 or more.
C22_YawInDomain ==
    [][/\ IsMsg /\ rx'.hash /\ rx'.n = 6
       /\ yaw_true >= 0 /\ yaw_true < 360000
       /\ rx'.f[3] >= -1000 /\ rx'.f[3] <= 1000
       => yaw_set' >= 0 /\ yaw_set' < 360000]_vars

Abs(x) == IF x < 0 THEN -x ELSE x

\* C23: at the end of every update_Motors call |pitch_integral| <= max_integral
\* and |roll_integral| <= max_integral + |roll_error of that call|, over any
\* number of ticks: the unclamped raw pass adds one error to a clamped value and
\* the roll accumulator does not grow beyond that.
C23_IntegralsBounded ==
    ticks >= 1 =>
        /\ Abs(pitch_integral) <= 100000
        /\ Abs(roll_integral) <= 100000 + Abs(roll_error)

\* C23 witness: after many ticks of a large roll error the roll accumulator
\* stands at the clamp plus one raw error, and the pitch accumulator at the clamp
C23_Witness ==
    /\ ticks >= 40
    /\ roll_error > 100000
    /\ roll_integral = 100000 + roll_error
    /\ Abs(pitch_integral) = 100000

\* C24: for any efforts each channel's value before the safety limits is at
\* least its base value effort_set*K_effort/PID_SCALE + offset, and with the
\* stop flag clear a channel is written as 960 only if its base value is at most
\* 960 and no effort was added to it.
C24_MixerOnlyAdds ==
    ticks = 1 =>
        LET base == Quot(effort_set * K_effort, 100000) + 960
        IN  \A k \in 1..4 :
               /\ pre[k] >= base
               /\ (stopFlag = 0 /\ ccr[k] = 960 => base <= 960 /\ pre[k] = base)

\* C24 witness: at zero throttle with the stop clear, a positive roll effort and
\* a negative yaw effort raised C and left B, which takes neither, at the floor
C24_Witness ==
    /\ ticks = 1 /\ stopFlag = 0 /\ effort_set = 0
    /\ pitch_effort = 0 /\ roll_effort = 50 /\ yaw_effort = -50
    /\ pre = <<1010, 960, 1060, 1010>>
    /\ ccr = pre

====
